---- MODULE Spec2Model ----
(***************************************************************************)
(* Model of ament_copyright/parser.py, the header classifier of the       *)
(* ament_lint copyright checker, and of the diagnostic aggregation loop of *)
(* ament_clang_tidy/main.py.                                               *)
(*                                                                         *)
(* A Python str is a sequence of one-character strings.  Python indices    *)
(* are 0-based and slices are half-open; the helpers Slice, At and Find    *)
(* keep that convention, so every index in the model is the index the      *)
(* Python code computes.  None is the empty tuple and a present value v is *)
(* the 1-tuple <<v>>.                                                      *)
(***************************************************************************)
EXTENDS Integers, Sequences, FiniteSets, TLC

VARIABLES
    exists,            \* FileDescriptor.exists
    file,              \* the text open(path).read() returns
    filetype,          \* FileDescriptor.filetype
    licenses,          \* get_licenses(): ordered mapping name -> templates
    copyright_names,   \* get_copyright_names(): ordered mapping id -> name
    parts,             \* the years and the name a generated statement line is made of
    d,                 \* the descriptor object
    call,              \* the last module-level function call and its result
    async_outputs,     \* main: what async_output.get() returns, in order
    report,            \* main: report, a mapping file -> list of data
    current_file,      \* main: current_file
    data,              \* main: data, a mapping key -> string
    position           \* main: the output and the line the loops are at

given == <<exists, file, filetype, licenses, copyright_names, parts>>
tidy == <<async_outputs, report, current_file, data, position>>
vars == <<given, d, call, tidy>>

----------------------------------------------------------------------------
(* Python values *)

None == << >>
Some(v) == <<v>>

Min(a, b) == IF a < b THEN a ELSE b

\* s[a:b] for 0 <= a
Slice(s, a, b) ==
    LET e == Min(b, Len(s))
    IN  IF a >= e THEN << >> ELSE SubSeq(s, a + 1, e)

\* s[a:]
From(s, a) == Slice(s, a, Len(s))

\* s[i] for 0 <= i < len(s)
At(s, i) == s[i + 1]

\* s.startswith(sub, i), written s[i:i + len(sub)] == sub in the source
StartsAt(s, sub, i) == Slice(s, i, i + Len(sub)) = sub

\* s.find(sub, start) for a non-empty sub
Find(s, sub, start) ==
    IF \A i \in start..(Len(s) - Len(sub)) : ~StartsAt(s, sub, i) THEN -1
    ELSE CHOOSE i \in start..(Len(s) - Len(sub)) :
            /\ StartsAt(s, sub, i)
            /\ \A j \in start..(i - 1) : ~StartsAt(s, sub, j)

\* sub in s
Contains(s, sub) == Find(s, sub, 0) # -1

\* A local name is bound as  x \in {e}  inside TheOne, so that e is evaluated
\* once however often x is used.
TheOne(S) == CHOOSE r \in S : TRUE

MaxOf(S) == CHOOSE i \in S : \A j \in S : j <= i
MinOf(S) == CHOOSE i \in S : \A j \in S : i <= j

RECURSIVE Flatten(_)
Flatten(ss) ==
    IF Len(ss) = 0 THEN << >>
    ELSE TheOne({Head(ss) \o Flatten(rest) : rest \in {Tail(ss)}})

NL == "\n"
CR == "\r"

\* the characters the re module's \s matches, among those of the model's alphabet
Whitespace == {" ", "\t", NL, CR}
Digits == {"0", "1", "2", "3", "4", "5", "6", "7", "8", "9"}

COPYRIGHT == <<"C", "o", "p", "y", "r", "i", "g", "h", "t">>
PLACEHOLDER == <<"{", "c", "o", "p", "y", "r", "i", "g", "h", "t", "}">>
CODING_EQ == <<"c", "o", "d", "i", "n", "g", "=">>
CODING_COLON == <<"c", "o", "d", "i", "n", "g", ":">>

UNKNOWN_IDENTIFIER == "unknown"
SOURCE_FILETYPE == "source"
CONTRIBUTING_FILETYPE == "contributing"
LICENSE_FILETYPE == "license"

----------------------------------------------------------------------------
(* Line scanning *)

get_index_of_next_line(content, index) ==
    TheOne({
        LET indices == {i \in {f.index_n, f.index_r, f.index_rn} : i # -1}
        IN  IF indices = {} THEN Len(content)
            ELSE IF MinOf(indices) = f.index_rn THEN MinOf(indices) + 2
            ELSE MinOf(indices) + 1 :
        f \in {[index_n |-> Find(content, <<NL>>, index),
                index_r |-> Find(content, <<CR>>, index),
                index_rn |-> Find(content, <<CR, NL>>, index)]}})

\* content[index] raises IndexError when index is not below len(content);
\* content[index:index + 1] holds at most one character
is_comment_line(content, index) ==
    IF index >= Len(content)
    THEN [exc |-> TRUE, val |-> FALSE]
    ELSE [exc |-> FALSE,
          val |-> At(content, index) = "#"
                  \/ Slice(content, index, index + 1) = <<"/", "/">>]

is_coding_line(content, index) ==
    TheOne({Contains(line, CODING_EQ) \/ Contains(line, CODING_COLON) :
        line \in {Slice(content, index, get_index_of_next_line(content, index))}})

is_shebang_line(content, index) ==
    Slice(content, index, index + 2) = <<"#", "!">>

\* the while loop, entered with index; exc when is_comment_line raises
RECURSIVE scan_coding_loop(_, _)
scan_coding_loop(content, index) ==
    IF is_comment_line(content, index).exc THEN [exc |-> TRUE, index |-> index]
    ELSE IF /\ is_comment_line(content, index).val
            /\ \/ is_coding_line(content, index)
               \/ is_shebang_line(content, index)
    THEN TheOne({scan_coding_loop(content, next) :
            next \in {get_index_of_next_line(content, index)}})
    ELSE [exc |-> FALSE, index |-> index]

scan_past_coding_and_shebang_lines(content) == scan_coding_loop(content, 0)

is_empty_line(content, index) ==
    get_index_of_next_line(content, index) = index + 1

RECURSIVE scan_past_empty_lines(_, _)
scan_past_empty_lines(content, index) ==
    IF is_empty_line(content, index)
    THEN TheOne({scan_past_empty_lines(content, next) :
            next \in {get_index_of_next_line(content, index)}})
    ELSE index

----------------------------------------------------------------------------
(* Comment block extraction *)

\* '^' under re.MULTILINE: the start of the string or just after a "\n"
AtLineStart(content, p) == p = 0 \/ At(content, p - 1) = NL

\* the alternative of (#|//) that matches at p, or the empty string
comment_token_at(content, p) ==
    IF StartsAt(content, <<"#">>, p) THEN <<"#">>
    ELSE IF StartsAt(content, <<"/", "/">>, p) THEN <<"/", "/">>
    ELSE << >>

\* regex.search(content, index) for '^(#|//)': match.start(1), or -1
search_comment_start(content, index) ==
    TheOne({IF hits = {} THEN -1 ELSE MinOf(hits) :
        hits \in {{p \in index..Len(content) :
                     /\ AtLineStart(content, p)
                     /\ comment_token_at(content, p) # << >>}}})

\* the while True loop, entered with end_index
RECURSIVE block_end(_, _, _)
block_end(content, comment_token, end_index) ==
    TheOne({IF Slice(content, next, next + Len(comment_token)) # comment_token
            THEN next
            ELSE block_end(content, comment_token, next) :
        next \in {get_index_of_next_line(content, end_index)}})

\* str.splitlines() over the terminators "\n", "\r" and "\r\n"
RECURSIVE splitlines(_)
splitlines(s) ==
    IF Len(s) = 0 THEN << >>
    ELSE TheOne({
            IF b = -1 THEN <<s>>
            ELSE TheOne({<<Slice(s, 0, b)>> \o splitlines(rest) :
                    rest \in {From(s, IF StartsAt(s, <<CR, NL>>, b)
                                      THEN b + 2 ELSE b + 1)}}) :
        b \in {TheOne({IF brk = {} THEN -1 ELSE MinOf(brk) :
                  brk \in {{i \in 0..(Len(s) - 1) : At(s, i) \in {NL, CR}}}})}})

\* '\n'.join(lines)
RECURSIVE join_lines(_)
join_lines(lines) ==
    IF Len(lines) = 0 THEN << >>
    ELSE IF Len(lines) = 1 THEN lines[1]
    ELSE TheOne({lines[1] \o <<NL>> \o join_lines(rest) : rest \in {Tail(lines)}})

\* line[len(comment_token) + 1:] for line in lines
strip_lines(lines, comment_token) ==
    [i \in 1..Len(lines) |-> From(lines[i], Len(comment_token) + 1)]

\* the returned block and offset; stop and token are the locals end_index
\* and comment_token
get_comment_block(content, index) ==
    TheOne({
        IF start_index = -1
        THEN [found |-> FALSE, block |-> << >>, start |-> -1, stop |-> -1,
              token |-> << >>]
        ELSE TheOne({
                [found |-> TRUE,
                 block |-> TheOne({join_lines(strip_lines(lines, comment_token)) :
                              lines \in {splitlines(Slice(content, start_index, end_index))}}),
                 start |-> start_index + Len(comment_token) + 1,
                 stop |-> end_index,
                 token |-> comment_token] :
             comment_token \in {comment_token_at(content, start_index)},
             end_index \in {block_end(content, comment_token_at(content, start_index),
                                      start_index)}}) :
        start_index \in {search_comment_start(content, index)}})

----------------------------------------------------------------------------
\* The copyright pattern
\*   ^[^\n\r]?\s*(Copyright)\s+(Y(?:,\s*Y)*)\s+([^\n\r]+)$
\* with Y = (?:\d{4}|\d{4}-\d{4}), compiled with re.DOTALL | re.MULTILINE.
\* Each operator is one piece of the pattern followed by the rest of it,
\* and returns the first success in the order a backtracking matcher tries
\* the alternatives: greedy repetitions longest first, alternations left
\* to right.

NoMatch == [ok |-> FALSE, copyright |-> <<0, 0>>, years |-> <<0, 0>>, name |-> <<0, 0>>]

\* '$' under re.MULTILINE: the end of the string or just before a "\n"
AtLineEnd(content, p) == p = Len(content) \/ At(content, p) = NL

\* where the run of \s characters starting at p ends
SpaceRunEnd(content, p) ==
    CHOOSE q \in p..Len(content) :
        /\ \A i \in p..(q - 1) : At(content, i) \in Whitespace
        /\ q = Len(content) \/ At(content, q) \notin Whitespace

\* where the run of [^\n\r] characters starting at p ends
NameRunEnd(content, p) ==
    CHOOSE q \in p..Len(content) :
        /\ \A i \in p..(q - 1) : At(content, i) \notin {NL, CR}
        /\ q = Len(content) \/ At(content, q) \in {NL, CR}

\* ([^\n\r]+)$
match_name(content, p) ==
    LET good == {q \in (p + 1)..NameRunEnd(content, p) : AtLineEnd(content, q)}
    IN  IF good = {} THEN NoMatch
        ELSE [NoMatch EXCEPT !.ok = TRUE, !.name = <<p, MaxOf(good)>>]

\* The alternatives a backtracking step tries are pairs <<rank, result>>.

\* the successful try of the highest rank (a greedy repetition: longest first)
LastOk(T) ==
    LET good == {t \in T : t[2].ok}
    IN  IF good = {} THEN NoMatch
        ELSE (CHOOSE t \in good : \A u \in good : u[1] <= t[1])[2]

\* the successful try of the lowest rank (an alternation, a search: leftmost first)
FirstOk(T) ==
    LET good == {t \in T : t[2].ok}
    IN  IF good = {} THEN NoMatch
        ELSE (CHOOSE t \in good : \A u \in good : t[1] <= u[1])[2]

\* \s+([^\n\r]+)$
match_after_years(content, p) ==
    TheOne({LastOk(T) : T \in
        {{<<q, match_name(content, q)>> : q \in (p + 1)..SpaceRunEnd(content, p)}}})

\* \d{4}
IsYear(content, p) ==
    /\ p + 4 <= Len(content)
    /\ \A i \in p..(p + 3) : At(content, i) \in Digits

\* year_ends without the year range alternative
year_ends_no_range(content, p) ==
    IF ~IsYear(content, p) THEN << >> ELSE <<p + 4>>

\* (?:\d{4}|\d{4}-\d{4}) at p: the ends of its matches, in the order tried
year_ends(content, p) ==
    IF ~IsYear(content, p) THEN << >>
    ELSE IF StartsAt(content, <<"-">>, p + 4) /\ IsYear(content, p + 5)
    THEN <<p + 4, p + 9>>
    ELSE <<p + 4>>

\* ,\s*Y at q: the ends of its matches as <<rank, end>>, the rank higher for
\* the ones tried first (the longer \s*, then the plain year before the range)
next_year_ends(content, q) ==
    IF ~StartsAt(content, <<",">>, q) THEN {}
    ELSE UNION {{<<2 * we[1] - k, we[2][k]>> : k \in 1..Len(we[2])} :
                   we \in {<<w, year_ends(content, w)>> :
                              w \in (q + 1)..SpaceRunEnd(content, q + 1)}}

\* (?:,\s*Y)* and the rest of the pattern, the year list so far ending at q
RECURSIVE match_years_tail(_, _)
match_years_tail(content, q) ==
    TheOne({IF more.ok THEN more
            ELSE [match_after_years(content, q) EXCEPT !.years = <<0, q>>] :
        more \in {LastOk({<<e[1], match_years_tail(content, e[2])>> :
                            e \in next_year_ends(content, q)})}})

\* (Y(?:,\s*Y)*) and the rest of the pattern
match_years(content, p) ==
    TheOne({[m EXCEPT !.years = <<IF m.ok THEN p ELSE 0, m.years[2]>>] :
        m \in {FirstOk({<<k, match_years_tail(content, year_ends(content, p)[k])>> :
                          k \in 1..Len(year_ends(content, p))})}})

\* \s+ after the word, and the rest of the pattern
match_after_copyright(content, p) ==
    TheOne({LastOk(T) : T \in
        {{<<q, match_years(content, q)>> : q \in (p + 1)..SpaceRunEnd(content, p)}}})

\* \s*(Copyright) and the rest of the pattern
match_word(content, p) ==
    TheOne({LastOk(T) : T \in
        {{<<q, [match_after_copyright(content, q + Len(COPYRIGHT))
                  EXCEPT !.copyright = <<q, q + Len(COPYRIGHT)>>]>> :
            q \in {r \in p..SpaceRunEnd(content, p) : StartsAt(content, COPYRIGHT, r)}}}})

\* ^[^\n\r]? and the rest of the pattern, tried at s
match_at(content, s) ==
    IF ~AtLineStart(content, s) THEN NoMatch
    ELSE TheOne({FirstOk(T) : T \in
        {{<<k, match_word(content, s + 1 - k)>> :
            k \in IF s < Len(content) /\ At(content, s) \notin {NL, CR}
                  THEN {0, 1} ELSE {1}}}})

\* regex.search(content): the spans of groups 1, 2 and 3 of the leftmost match
_search_copyright_information(content) ==
    TheOne({[found |-> m.ok, copyright_span |-> m.copyright,
             years_span |-> m.years, name_span |-> m.name] :
        m \in {FirstOk({<<s, match_at(content, s)>> : s \in 0..Len(content)})}})

----------------------------------------------------------------------------
(* The descriptors *)

\* the fields __init__ sets, before read()
NewDescriptor ==
    [state |-> "Unread", content |-> None,
     copyright_name |-> None, copyright_years |-> None,
     copyright_identifier |-> None, license_identifier |-> None]

\* FileDescriptor.read
read(desc) ==
    IF ~exists THEN desc ELSE [desc EXCEPT !.content = Some(file)]

\* not self.content: None or the empty string
NoContent(desc) == desc.content = None \/ desc.content[1] = << >>

\* the for/else over get_copyright_names().items()
identify_copyright(desc) ==
    LET hits == {i \in 1..Len(copyright_names) :
                    /\ desc.copyright_name # None
                    /\ desc.copyright_name[1] = copyright_names[i].name}
    IN  [desc EXCEPT !.copyright_identifier =
            IF hits = {} THEN Some(UNKNOWN_IDENTIFIER)
            ELSE Some(copyright_names[MinOf(hits)].identifier)]

\* getattr(license, license_part)
license_attr(license, license_part) ==
    CASE license_part = "file_header" -> license.file_header
      [] license_part = "license_file" -> license.license_file
      [] license_part = "contributing_file" -> license.contributing_file

\* identify_license returning early, the field left as it was, when content is None
identify_license_skips_none(desc, content, license_part) ==
    IF content = None THEN desc
    ELSE [desc EXCEPT !.license_identifier =
            IF \A i \in 1..Len(licenses) :
                  license_attr(licenses[i], license_part) # content[1]
            THEN Some(UNKNOWN_IDENTIFIER)
            ELSE Some(licenses[MinOf({i \in 1..Len(licenses) :
                    license_attr(licenses[i], license_part) = content[1]})].name)]

\* the for/else over get_licenses().items(); content is None or <<text>>
identify_license(desc, content, license_part) ==
    LET hits == {i \in 1..Len(licenses) :
                    /\ content # None
                    /\ license_attr(licenses[i], license_part) = content[1]}
    IN  [desc EXCEPT !.license_identifier =
            IF hits = {} THEN Some(UNKNOWN_IDENTIFIER)
            ELSE Some(licenses[MinOf(hits)].name)]

\* _replace_copyright_with_placeholder dropping what precedes the statement,
\* as SourceDescriptor.parse builds its comparison string
_replace_drops_prefix(content, desc) ==
    TheOne({
        IF ~m.found THEN [desc |-> desc, content |-> None]
        ELSE [desc |-> [desc EXCEPT
                  !.copyright_years = Some(Slice(content, m.years_span[1], m.years_span[2])),
                  !.copyright_name = Some(Slice(content, m.name_span[1], m.name_span[2]))],
              content |-> Some(PLACEHOLDER \o From(content, m.name_span[2]))] :
        m \in {_search_copyright_information(content)}})

\* the descriptor with the years and the name set, and the returned string
_replace_copyright_with_placeholder(content, desc) ==
    TheOne({
        IF ~m.found THEN [desc |-> desc, content |-> None]
        ELSE [desc |-> [desc EXCEPT
                  !.copyright_years = Some(Slice(content, m.years_span[1], m.years_span[2])),
                  !.copyright_name = Some(Slice(content, m.name_span[1], m.name_span[2]))],
              content |-> Some(Slice(content, 0, m.copyright_span[1]) \o PLACEHOLDER
                               \o From(content, m.name_span[2]))] :
        m \in {_search_copyright_information(content)}})

\* SourceDescriptor.parse, from the copyright search on: block is non-empty
source_classify(desc, block) ==
    TheOne({
        IF ~m.found THEN [desc EXCEPT !.state = "Parsed"]
        ELSE TheOne({
                [identify_license(named, Some(PLACEHOLDER \o From(block, m.name_span[2])),
                                  "file_header")
                    EXCEPT !.state = "Parsed"] :
             named \in {identify_copyright([desc EXCEPT
                 !.copyright_years = Some(Slice(block, m.years_span[1], m.years_span[2])),
                 !.copyright_name = Some(Slice(block, m.name_span[1], m.name_span[2]))])}}) :
        m \in {_search_copyright_information(block)}})

\* SourceDescriptor.parse, from the preamble scan to the comment block:
\* content is non-empty
source_scan(desc, content) ==
    TheOne({
        IF pre.exc THEN [desc EXCEPT !.state = "Raised"]
        ELSE TheOne({
                IF ~cb.found \/ cb.block = << >> THEN [desc EXCEPT !.state = "Parsed"]
                ELSE source_classify(desc, cb.block) :
             cb \in {TheOne({get_comment_block(content, index) :
                        index \in {scan_past_empty_lines(content, pre.index)}})}}) :
        pre \in {scan_past_coding_and_shebang_lines(content)}})

\* SourceDescriptor.parse
source_parse(desc0) ==
    TheOne({
        IF NoContent(desc) THEN [desc EXCEPT !.state = "NoContent"]
        ELSE TheOne({source_scan(desc, content) : content \in {desc.content[1]}}) :
        desc \in {read(desc0)}})

\* ContributingDescriptor.parse
contributing_parse(desc0) ==
    TheOne({
        IF NoContent(desc) THEN [desc EXCEPT !.state = "NoContent"]
        ELSE [identify_license(desc, desc.content, "contributing_file")
                EXCEPT !.state = "Parsed"] :
        desc \in {read(desc0)}})

\* LicenseDescriptor.parse
license_parse(desc0) ==
    TheOne({
        IF NoContent(desc) THEN [desc EXCEPT !.state = "NoContent"]
        ELSE TheOne({
                [identify_license(r.desc, r.content, "license_file")
                    EXCEPT !.state = "Parsed"] :
             r \in {TheOne({_replace_copyright_with_placeholder(desc.content[1], looked) :
                       looked \in {identify_copyright(desc)}})}}) :
        desc \in {read(desc0)}})

----------------------------------------------------------------------------
(* Inputs: texts are concatenations of a few lexemes *)

MaxLexemes == 3
MaxTemplateLexemes == 3
MaxTextLexemes == 5
MaxLineLexemes == 4
MaxYears == 2

SeqsUpTo(S, n) == UNION {[1..k -> S] : k \in 0..n}
Texts(S, n) == {Flatten(q) : q \in SeqsUpTo(S, n)}

YEAR_A == <<"2", "0", "1", "5">>
YEAR_B == <<"2", "0", "1", "9">>
FOO == <<"F", "o", "o">>
FOO_CORP == <<"F", "o", "o", " ", "C", "o", "r", "p">>
JANE_DOE == <<"J", "a", "n", "e", " ", "D", "o", "e">>
SP == <<" ">>

\* "Copyright 2015 Foo"
STATEMENT == COPYRIGHT \o SP \o YEAR_A \o SP \o FOO
\* "2015 Foo Corp"
YEARS_HOLDER == YEAR_A \o SP \o FOO_CORP
\* "Copyright 2015 Foo Corp"
FULL_STATEMENT == COPYRIGHT \o SP \o YEARS_HOLDER

License(name, header, text, contributing) ==
    [name |-> name, file_header |-> header, license_file |-> text,
     contributing_file |-> contributing]

NoCall == [op |-> "none", index |-> 0, result |-> << >>]

\* main before its aggregation loop, with no output to read
NoTidy ==
    /\ async_outputs = << >>
    /\ report = << >>
    /\ current_file = None
    /\ data = << >>
    /\ position = [output |-> 1, line |-> 1]

----------------------------------------------------------------------------
(* parse_file on arbitrary small files *)

FileLexemes ==
    {STATEMENT, <<"#", " ">>, <<"#", "!">>, CODING_COLON, <<NL>>, <<CR>>, <<"x">>}

HolderRegistries ==
    {<< >>,
     <<[identifier |-> "bar", name |-> <<"B", "a", "r">>],
       [identifier |-> "foo", name |-> FOO]>>}

LicenseRegistries ==
    {<<License("apache2", PLACEHOLDER, PLACEHOLDER, <<"x">>)>>,
     <<License("bsd", <<"x">>, <<"x">>, <<"#", " ">>),
       License("apache2", PLACEHOLDER, PLACEHOLDER, <<"x">>)>>}

Init ==
    /\ exists \in BOOLEAN
    /\ file \in IF exists THEN Texts(FileLexemes, MaxLexemes) ELSE {<< >>}
    /\ filetype \in {SOURCE_FILETYPE, CONTRIBUTING_FILETYPE, LICENSE_FILETYPE}
    /\ licenses \in LicenseRegistries
    /\ copyright_names \in HolderRegistries
    /\ parts = << >>
    /\ d = NewDescriptor
    /\ call = NoCall
    /\ NoTidy

\* parse_file: the descriptor its file type selects, and its parse()
SourceParse ==
    /\ filetype = SOURCE_FILETYPE
    /\ d.state = "Unread"
    /\ d' = source_parse(d)
    /\ UNCHANGED <<given, call, tidy>>

ContributingParse ==
    /\ filetype = CONTRIBUTING_FILETYPE
    /\ d.state = "Unread"
    /\ d' = contributing_parse(d)
    /\ UNCHANGED <<given, call, tidy>>

LicenseParse ==
    /\ filetype = LICENSE_FILETYPE
    /\ d.state = "Unread"
    /\ d' = license_parse(d)
    /\ UNCHANGED <<given, call, tidy>>

Next == SourceParse \/ ContributingParse \/ LicenseParse

Spec == Init /\ [][Next]_vars

----------------------------------------------------------------------------
(* parse_file on files made from a registered template *)

\* s.replace(old, new)
RECURSIVE Replace(_, _, _)
Replace(s, old, new) ==
    TheOne({IF i = -1 THEN s
            ELSE TheOne({Slice(s, 0, i) \o new \o Replace(rest, old, new) :
                    rest \in {From(s, i + Len(old))}}) :
        i \in {Find(s, old, 0)}})

\* s.split('\n')
RECURSIVE SplitNL(_)
SplitNL(s) ==
    TheOne({IF i = -1 THEN <<s>>
            ELSE TheOne({<<Slice(s, 0, i)>> \o SplitNL(rest) : rest \in {From(s, i + 1)}}) :
        i \in {Find(s, <<NL>>, 0)}})

\* a header as a comment block: every line behind the marker and one space
Commented(header, marker) ==
    TheOne({join_lines([k \in 1..Len(lines) |-> marker \o SP \o lines[k]]) :
        lines \in {SplitNL(header)}})

\* "Copyright 2014 T"
OLD_STATEMENT == COPYRIGHT \o SP \o <<"2", "0", "1", "4">> \o SP \o <<"T">>

TemplateLexemes ==
    {PLACEHOLDER, <<NL>>, <<CR>>, <<"T">>, SP, COPYRIGHT \o SP, OLD_STATEMENT}

Templates == Texts(TemplateLexemes, MaxTemplateLexemes)

SameTemplates(name, t) == License(name, t, t, t)

TemplateRegistries ==
    {<<SameTemplates("a", t)>> : t \in Templates}
    \cup {<<SameTemplates("b", PLACEHOLDER), SameTemplates("a", t)>> : t \in Templates}

Markers == {<<"#">>, <<"/", "/">>}

InitTemplate ==
    /\ exists = TRUE
    /\ licenses \in TemplateRegistries
    /\ copyright_names = << >>
    /\ parts = << >>
    /\ filetype \in {SOURCE_FILETYPE, LICENSE_FILETYPE}
    /\ file \in
        IF filetype = LICENSE_FILETYPE
        THEN {Replace(licenses[i].license_file, PLACEHOLDER, st) :
                i \in 1..Len(licenses), st \in {YEARS_HOLDER, FULL_STATEMENT}}
        ELSE {Commented(Replace(licenses[i].file_header, PLACEHOLDER, st), mk) :
                i \in 1..Len(licenses), st \in {STATEMENT, FULL_STATEMENT},
                mk \in Markers}
    /\ d = NewDescriptor
    /\ call = NoCall
    /\ NoTidy

NextTemplate == SourceParse \/ LicenseParse

SpecTemplate == InitTemplate /\ [][NextTemplate]_vars

----------------------------------------------------------------------------
(* The module-level functions called on their own *)

NoFile ==
    /\ exists = FALSE
    /\ filetype = SOURCE_FILETYPE
    /\ licenses = << >>
    /\ copyright_names = << >>
    /\ d = NewDescriptor
    /\ call = NoCall

CallSearch ==
    /\ call.op = "none"
    /\ call' = [op |-> "search", index |-> 0,
                result |-> _search_copyright_information(file)]
    /\ UNCHANGED <<given, d, tidy>>

CallScanCoding ==
    /\ call.op = "none"
    /\ call' = [op |-> "scan_coding", index |-> 0,
                result |-> scan_past_coding_and_shebang_lines(file)]
    /\ UNCHANGED <<given, d, tidy>>

CallScanEmpty ==
    /\ call.op = "none"
    /\ \E index \in 0..Len(file) :
        call' = [op |-> "scan_empty", index |-> index,
                 result |-> scan_past_empty_lines(file, index)]
    /\ UNCHANGED <<given, d, tidy>>

CallGetCommentBlock ==
    /\ call.op = "none"
    /\ \E index \in 0..Len(file) :
        call' = [op |-> "get_comment_block", index |-> index,
                 result |-> get_comment_block(file, index)]
    /\ UNCHANGED <<given, d, tidy>>

\* the matcher on lines "Copyright <years> <name>"
YearTokens == {YEAR_A, YEAR_B, YEAR_A \o <<"-">> \o YEAR_B}
YearSeparators == {<<",">>, <<",", " ">>}

RECURSIVE YearLists(_)
YearLists(n) ==
    IF n = 1 THEN YearTokens
    ELSE TheOne({shorter \cup {l \o sep \o y :
                                 l \in shorter, sep \in YearSeparators, y \in YearTokens} :
            shorter \in {YearLists(n - 1)}})

Names == {JANE_DOE, <<"3", "M">>, YEAR_B \o SP \o <<"X">>, <<",", "X">>}
Gaps == {SP, <<" ", " ">>, <<"\t">>}
Trailers == {<< >>, <<NL>>, <<NL, "x">>}

InitStatement ==
    /\ NoFile
    /\ NoTidy
    /\ parts \in [years : YearLists(MaxYears), name : Names]
    /\ file \in {COPYRIGHT \o g1 \o parts.years \o g2 \o parts.name \o tr :
                   g1 \in Gaps, g2 \in Gaps, tr \in Trailers}

SpecStatement == InitStatement /\ [][CallSearch]_vars

\* the matcher on arbitrary texts
TextLexemes == {COPYRIGHT, YEAR_A, SP, <<NL>>, <<CR>>, <<",">>, <<"F">>}

InitText ==
    /\ NoFile
    /\ NoTidy
    /\ parts = << >>
    /\ file \in Texts(TextLexemes, MaxTextLexemes)

SpecText == InitText /\ [][CallSearch]_vars

\* the line scanners on arbitrary texts
LineLexemes == {<<"#">>, <<"/", "/">>, <<"x">>, <<NL>>, <<CR>>, <<"!">>}

InitLines ==
    /\ NoFile
    /\ NoTidy
    /\ parts = << >>
    /\ file \in Texts(LineLexemes, MaxLineLexemes)

NextLines == CallScanCoding \/ CallScanEmpty \/ CallGetCommentBlock

SpecLines == InitLines /\ [][NextLines]_vars

----------------------------------------------------------------------------
(* ament_clang_tidy/main.py: the aggregation of the tool's diagnostics *)

\* extensions, in the order of the alternation
EXTENSIONS ==
    << <<"c">>, <<"c", "c">>, <<"c", "p", "p">>, <<"c", "x", "x">>,
       <<"h">>, <<"h", "h">>, <<"h", "p", "p">>, <<"h", "x", "x">> >>

\* error_re finds nothing
NoLocation == [ok |-> FALSE, group1 |-> << >>, group2 |-> << >>, group3 |-> << >>]

\* where the run of \d characters starting at p <= len(line) ends
DigitRunEnd(line, p) ==
    CHOOSE q \in p..Len(line) :
        /\ \A i \in p..(q - 1) : At(line, i) \in Digits
        /\ q = Len(line) \/ At(line, q) \notin Digits

\* :(\d+):(\d+):  at p; a \d+ gives nothing back, a ':' has to follow it
match_line_and_column(line, p) ==
    IF ~StartsAt(line, <<":">>, p) THEN NoLocation
    ELSE TheOne({
            IF ~(e1 > p + 1 /\ StartsAt(line, <<":">>, e1)) THEN NoLocation
            ELSE TheOne({
                    IF e2 > e1 + 1 /\ StartsAt(line, <<":">>, e2)
                    THEN [NoLocation EXCEPT !.ok = TRUE,
                                            !.group2 = Slice(line, p + 1, e1),
                                            !.group3 = Slice(line, e1 + 1, e2)]
                    ELSE NoLocation :
                e2 \in {DigitRunEnd(line, e1 + 1)}}) :
        e1 \in {DigitRunEnd(line, p + 1)}})

\* \.(?:c|cc|...)):(\d+):(\d+):  at p, for a group 1 that starts at s: the
\* first extension of the alternation after which the rest matches
match_extension(line, s, p) ==
    TheOne({
        IF good = {} THEN NoLocation
        ELSE TheOne({[t[2] EXCEPT !.group1 = Slice(line, s, p + 1 + Len(EXTENSIONS[t[1]]))] :
                t \in {CHOOSE t \in good : \A u \in good : t[1] <= u[1]}}) :
        good \in {{t \in {<<k, match_line_and_column(line, p + 1 + Len(EXTENSIONS[k]))>> :
                            k \in {k \in 1..Len(EXTENSIONS) :
                                     StartsAt(line, <<".">> \o EXTENSIONS[k], p)}} :
                     t[2].ok}}})

\* (/.*\.(?:...)):(\d+):(\d+):  with group 1 starting at s: the greedy '.*'
\* gives back one character at a time, so the last '.' that works is taken
match_location_at(line, s) ==
    IF ~StartsAt(line, <<"/">>, s) THEN NoLocation
    ELSE TheOne({
            IF good = {} THEN NoLocation
            ELSE (CHOOSE t \in good : \A u \in good : u[1] <= t[1])[2] :
            good \in {{t \in {<<p, match_extension(line, s, p)>> :
                                p \in {p \in (s + 1)..(Len(line) - 1) :
                                         \A i \in (s + 1)..(p - 1) : At(line, i) # NL}} :
                         t[2].ok}}})

\* error_re.search(line): the leftmost start that matches
error_re_search(line) ==
    TheOne({
        IF good = {} THEN NoLocation
        ELSE (CHOOSE t \in good : \A u \in good : t[1] <= u[1])[2] :
        good \in {{t \in {<<s, match_location_at(line, s)>> : s \in 0..(Len(line) - 1)} :
                     t[2].ok}}})

\* data.rfind(':')
rfind_colon(line) ==
    TheOne({IF at = {} THEN -1 ELSE MaxOf(at) :
        at \in {{i \in 0..(Len(line) - 1) : At(line, i) = ":"}}})

find_error_message(line) == From(line, rfind_colon(line) + 2)

\* report[current_file].append(copy.deepcopy(data)) on a defaultdict(list)
report_append(rep, name, entry) ==
    IF name \in DOMAIN rep THEN [rep EXCEPT ![name] = Append(@, entry)]
    ELSE (name :> <<entry>>) @@ rep

\* data[key] = value
data_set(dict, key, value) == (key :> value) @@ dict

\* data.get(key, '')
data_get(dict, key) == IF key \in DOMAIN dict THEN dict[key] ELSE << >>

\* the lines of the output the outer loop is at
output_lines == splitlines(async_outputs[position.output])

\* the body of the inner loop for a line that error_re matches
MatchingLine ==
    /\ position.output <= Len(async_outputs)
    /\ position.line <= Len(output_lines)
    /\ \E line \in {output_lines[position.line]} :
       \E match \in {error_re_search(line)} :
        /\ match.ok
        /\ report' = IF current_file # None
                     THEN report_append(report, current_file[1], data)
                     ELSE report
        /\ current_file' = Some(match.group1)
        /\ data' = data_set(data_set(data_set(
                       IF current_file # None THEN << >> ELSE data,
                       "line_no", match.group2),
                       "offset_in_line", match.group3),
                       "error_msg", find_error_message(line))
    /\ position' = [position EXCEPT !.line = @ + 1]
    /\ UNCHANGED <<given, d, call, async_outputs>>

\* the body of the inner loop for any other line
OtherLine ==
    /\ position.output <= Len(async_outputs)
    /\ position.line <= Len(output_lines)
    /\ \E line \in {output_lines[position.line]} :
        /\ ~error_re_search(line).ok
        /\ data' = data_set(data, "code_correct_rec",
                            data_get(data, "code_correct_rec") \o line \o <<NL>>)
    /\ position' = [position EXCEPT !.line = @ + 1]
    /\ UNCHANGED <<given, d, call, async_outputs, report, current_file>>

\* after the inner loop: the pending diagnostic is appended, then the next output
EndOfOutput ==
    /\ position.output <= Len(async_outputs)
    /\ position.line > Len(output_lines)
    /\ report' = IF current_file # None
                 THEN report_append(report, current_file[1], data)
                 ELSE report
    /\ position' = [output |-> position.output + 1, line |-> 1]
    /\ UNCHANGED <<given, d, call, async_outputs, current_file, data>>

MaxOutputs == 2
MaxOutputLexemes == 3

\* "/a.c:1:2: e", "/b.h:3:4: w" and a line that is no diagnostic
DIAG_A == <<"/", "a", ".", "c", ":", "1", ":", "2", ":", " ", "e">>
DIAG_B == <<"/", "b", ".", "h", ":", "3", ":", "4", ":", " ", "w">>
NOTE == <<"n">>
OutputLexemes == {DIAG_A, DIAG_B, NOTE, <<NL>>}

\* invoke_clang_tidy returns a concatenation of stripped tool outputs
ToolOutputs ==
    {o \in Texts(OutputLexemes, MaxOutputLexemes) :
        o = << >> \/ (o[1] \notin Whitespace /\ o[Len(o)] \notin Whitespace)}

InitTidy ==
    /\ NoFile
    /\ parts = << >>
    /\ file = << >>
    /\ async_outputs \in SeqsUpTo(ToolOutputs, MaxOutputs)
    /\ report = << >>
    /\ current_file = None
    /\ data = << >>
    /\ position = [output |-> 1, line |-> 1]

NextTidy == MatchingLine \/ OtherLine \/ EndOfOutput

SpecTidy == InitTidy /\ [][NextTidy]_vars

----------------------------------------------------------------------------
(* Claims about parse_file on arbitrary files *)

\* a License file has been parsed and the matcher finds no statement in it
LicenseParsedWithoutStatement ==
    /\ filetype = LICENSE_FILETYPE
    /\ d.state = "Parsed"
    /\ ~_search_copyright_information(file).found

HolderOf(name) ==
    IF \A i \in 1..Len(copyright_names) : copyright_names[i].name # name
    THEN UNKNOWN_IDENTIFIER
    ELSE copyright_names[MinOf({i \in 1..Len(copyright_names) :
                                  copyright_names[i].name = name})].identifier

\* C2: when the matcher finds a statement in a License file, after parse()
\* copyright_identifier is the registry identifier whose canonical name
\* equals the extracted holder name, and "unknown" only when none equals it.
C2_HolderLookupOnExtractedName ==
    (filetype = LICENSE_FILETYPE /\ d.state = "Parsed" /\ d.copyright_name # None)
        => d.copyright_identifier = Some(HolderOf(d.copyright_name[1]))

\* C5: SourceDescriptor.parse() never raises on file content: it ends in
\* NoContent or Parsed.
C5_SourceParseNeverRaises ==
    filetype = SOURCE_FILETYPE => d.state # "Raised"

----------------------------------------------------------------------------
(* Claims about files made from a registered template *)

\* the template holds {copyright} exactly once, on a line of its own: at the
\* start of the text or after "\n", and before "\n" or the end of the text
PlaceholderOnOwnLine(t) ==
    TheOne({/\ p # -1
            /\ Find(t, PLACEHOLDER, p + 1) = -1
            /\ p = 0 \/ At(t, p - 1) = NL
            /\ p + Len(PLACEHOLDER) = Len(t) \/ At(t, p + Len(PLACEHOLDER)) = NL :
        p \in {Find(t, PLACEHOLDER, 0)}})

\* what precedes {copyright} in the template
BeforePlaceholder(t) == Slice(t, 0, Find(t, PLACEHOLDER, 0))

\* no license before the i-th has the same license_file
FirstWithLicenseFile(i) ==
    \A j \in 1..(i - 1) : licenses[j].license_file # licenses[i].license_file

\* no license before the i-th has the same file_header
FirstWithFileHeader(i) ==
    \A j \in 1..(i - 1) : licenses[j].file_header # licenses[i].file_header

\* C3, as stated: for every registered license, a License file whose text is
\* its license_file template with {copyright} replaced by "2015 Foo Corp" is
\* classified with that license's name.
C3_YearsAndHolderSubstituted ==
    \A i \in 1..Len(licenses) :
        (/\ filetype = LICENSE_FILETYPE
         /\ d.state = "Parsed"
         /\ Contains(licenses[i].license_file, PLACEHOLDER)
         /\ file = Replace(licenses[i].license_file, PLACEHOLDER, YEARS_HOLDER))
            => d.license_identifier = Some(licenses[i].name)

\* the premise of C3 as amended, for the i-th license
FullStatementSubstituted(i) ==
    /\ filetype = LICENSE_FILETYPE
    /\ d.state = "Parsed"
    /\ PlaceholderOnOwnLine(licenses[i].license_file)
    /\ ~Contains(BeforePlaceholder(licenses[i].license_file), COPYRIGHT)
    /\ FirstWithLicenseFile(i)
    /\ file = Replace(licenses[i].license_file, PLACEHOLDER, FULL_STATEMENT)

\* C3, amended: for every registered license whose license_file template
\* holds {copyright} exactly once, on a line of its own, with no word
\* "Copyright" before it, and which no earlier license of the registry shares,
\* a License file whose text is that template with {copyright} replaced by
\* the whole statement "Copyright 2015 Foo Corp" is classified with that
\* license's name, the years "2015" and the name "Foo Corp".
C3_FullStatementSubstituted ==
    \A i \in 1..Len(licenses) :
        FullStatementSubstituted(i) =>
            /\ d.license_identifier = Some(licenses[i].name)
            /\ d.copyright_years = Some(YEAR_A)
            /\ d.copyright_name = Some(FOO_CORP)

\* such a file has been classified, its template holding a line of text
\* before the placeholder line
C3_Witness ==
    \E i \in 1..Len(licenses) :
        /\ FullStatementSubstituted(i)
        /\ Contains(BeforePlaceholder(licenses[i].license_file), <<"T">>)
        /\ d.license_identifier = Some(licenses[i].name)

\* C4: for every registered license's file_header template (holding
\* {copyright} once, on a line of its own, and shared by no earlier license)
\* and every holder statement substituted for {copyright}, the commented
\* header is classified with that license's name, whatever template text
\* precedes the statement.
C4_HeaderRoundTrip ==
    \A i \in 1..Len(licenses), st \in {STATEMENT, FULL_STATEMENT}, mk \in Markers :
        (/\ filetype = SOURCE_FILETYPE
         /\ d.state = "Parsed"
         /\ PlaceholderOnOwnLine(licenses[i].file_header)
         /\ ~Contains(licenses[i].file_header, <<CR>>)
         /\ ~Contains(BeforePlaceholder(licenses[i].file_header), COPYRIGHT)
         /\ FirstWithFileHeader(i)
         /\ file = Commented(Replace(licenses[i].file_header, PLACEHOLDER, st), mk))
            => d.license_identifier = Some(licenses[i].name)

----------------------------------------------------------------------------
(* Claims about the copyright pattern matcher *)

C7_MatchWithinOneLine ==
    (call.op = "search" /\ call.result.found) =>
        \A i \in call.result.copyright_span[1]..(call.result.name_span[2] - 1) :
            At(file, i) \notin {NL, CR}

----------------------------------------------------------------------------
(* Claims about the line scanners *)

\* where the lines of content start, its lines ending with "\n", "\r" or "\r\n"
LineStarts(content) ==
    {p \in 0..(Len(content) - 1) :
        \/ p = 0
        \/ At(content, p - 1) = NL
        \/ At(content, p - 1) = CR /\ At(content, p) # NL}

\* the comment marker the line at p begins with, or the empty string
MarkerAt(content, p) ==
    IF StartsAt(content, <<"#">>, p) THEN <<"#">>
    ELSE IF StartsAt(content, <<"/", "/">>, p) THEN <<"/", "/">>
    ELSE << >>

\* the first line at or after index that begins with a marker, or -1
FirstCommentLine(content, index) ==
    TheOne({IF ps = {} THEN -1 ELSE MinOf(ps) :
        ps \in {{p \in LineStarts(content) :
                   p >= index /\ MarkerAt(content, p) # << >>}}})

\* the start of the first line after p that does not begin with marker, or
\* the end of content
EndOfRun(content, p, marker) ==
    TheOne({IF qs = {} THEN Len(content) ELSE MinOf(qs) :
        qs \in {{q \in LineStarts(content) :
                   q > p /\ ~StartsAt(content, marker, q)}}})

\* C8: get_comment_block finds the first line at or after the offset that
\* begins with # or //, fixes that marker, and delimits exactly the maximal
\* run of following lines beginning with the same marker.
C8_BlockDelimited ==
    call.op = "get_comment_block" =>
        TheOne({
            IF first = -1 THEN ~call.result.found
            ELSE /\ call.result.found
                 /\ call.result.token = MarkerAt(file, first)
                 /\ call.result.start = first + Len(MarkerAt(file, first)) + 1
                 /\ call.result.stop = EndOfRun(file, first, MarkerAt(file, first)) :
            first \in {FirstCommentLine(file, call.index)}})

\* C9: scan_past_coding_and_shebang_lines on the empty string does not raise
\* and returns 0.
C9_EmptyContentReturnsZero ==
    (call.op = "scan_coding" /\ file = << >>) =>
        /\ ~call.result.exc
        /\ call.result.index = 0

\* the start of the first line at or after index that holds more than its
\* terminator, or the end of content
FirstSubstantiveLine(content, index) ==
    TheOne({IF ps = {} THEN Len(content) ELSE MinOf(ps) :
        ps \in {{p \in LineStarts(content) :
                   p >= index /\ At(content, p) \notin {NL, CR}}}})

\* C10: from an offset at a line start, scan_past_empty_lines skips exactly
\* the lines that hold only a terminator and returns the offset of the first
\* substantive line.
C10_BlankLinesSkipped ==
    (call.op = "scan_empty" /\ call.index \in LineStarts(file) \cup {Len(file)}) =>
        call.result = FirstSubstantiveLine(file, call.index)

----------------------------------------------------------------------------
(* Claims about the aggregation of diagnostics *)

\* the outer loop of main has read every output
AllOutputsRead == position.output > Len(async_outputs)

\* the lines of all outputs, in the order the loops read them
AllLines == Flatten([k \in 1..Len(async_outputs) |-> splitlines(async_outputs[k])])

\* the lines that match the location pattern
MatchingLines == SelectSeq(AllLines, LAMBDA line : error_re_search(line).ok)

\* the lines that match the location pattern and name the file
LinesNaming(name) ==
    SelectSeq(AllLines, LAMBDA line :
        error_re_search(line).ok /\ error_re_search(line).group1 = name)

\* C11: once every output is read, the report holds exactly one entry for
\* each line that matches the location pattern, under the file the line
\* names: no diagnostic is recorded twice or carried into the next output.
C11_OneEntryPerMatchingLine ==
    AllOutputsRead =>
        /\ \A name \in DOMAIN report : Len(report[name]) = Len(LinesNaming(name))
        /\ \A k \in 1..Len(MatchingLines) :
               error_re_search(MatchingLines[k]).group1 \in DOMAIN report

====
